---- MODULE Spec2Model ----
(***************************************************************************)
(* Model of the scenario lock of godogx/httpsteps (sync.go): the type      *)
(* `synchronized`, its method acquireLock and the Before/After scenario    *)
(* hooks installed by register.                                            *)
(*                                                                         *)
(* Every scenario runs on a worker goroutine.  A channel (chan struct{})   *)
(* created by the Before hook is the scenario's identity; the registry     *)
(* s.locks maps a lock name to the channel of the scenario that holds it.  *)
(***************************************************************************)
EXTENDS Integers, Sequences, FiniteSets, TLC

\* ------------------------------------------------------------------ bounds
NumWorkers   == 3    \* goroutines that run scenarios concurrently
MaxScenarios == 3    \* scenarios started in one run
MaxLen       == 3    \* length of the enumerated inputs of statusCode
MaxUnmet     == 2    \* expectations a mock server can have waiting
NumMockWorkers   == 2    \* workers that run scenarios with ExternalServer steps
MaxMockScenarios == 2    \* scenarios with ExternalServer steps

Workers == 1..NumWorkers

\* The lock names: the two named services the concurrency tests register.
Names   == {"service-one", "service-two"}
Chans   == 1..MaxScenarios   \* a scenario's channel is numbered as the scenario

\* --------------------------------------------------------------- constants
NoChan == 0          \* nil channel: no map entry / no identity in the context
Free   == 0          \* s.mu is unlocked

StatusMin == 100     \* init: for i := 100; ...
StatusEnd == 599     \* init: ...; i < 599; i++

\* Strings that are parsed are sequences of characters.
OK == <<"O", "K">>
NoContent == <<"N", "o", " ", "C", "o", "n", "t", "e", "n", "t">>
NotFound == <<"N", "o", "t", " ", "F", "o", "u", "n", "d">>

\* http.StatusText: the phrases of the codes the features of the repository
\* use; every other code in the model has no phrase.
StatusText(i) ==
    CASE i = 200 -> OK
      [] i = 204 -> NoContent
      [] i = 404 -> NotFound
      [] OTHER -> <<>>

\* statusCode: no call has returned.
NoResult == [code |-> 0, err |-> "none"]

\* mock.exp == nil: no request expectation is pending.
NoExp == <<>>

\* Add: e.mocks[service] = &mock{srv: m}, a server without expectations.
NewMock == [exp |-> NoExp, srv |-> [ordered |-> 0, async |-> 0]]

\* The two instances: the lock of LocalClient and the lock of ExternalServer.
Insts == {"local", "external"}

\* No call of acquireLock or of the After hook is running.
NoCall == [inst |-> "", name |-> "", lock |-> 0]

\* No step is followed.
NoRun == [pc |-> "idle", kind |-> "none", raw |-> <<>>, service |-> "",
          status |-> <<>>, acquired |-> "none", acquires |-> <<>>,
          err |-> "none"]

\* The worker is not inside a step of ExternalServer.
NoStep == [kind |-> "none", key |-> ""]

\* The name of the service that is used when a step names none.
Default == "default"

\* No back-off has been installed.
NoRetry == [kind |-> "none", maxTries |-> 0, tries |-> 0, eb |-> 0, out |-> <<>>]

\* Messages of the errors the callback and the hooks return.
errMissingScenarioLock == "missing scenario lock"
ErrMsg(key) == "expectations were not met for " \o key
Sep == ", "

VARIABLES
    locks,      \* s.locks: lock name -> channel of the holder, NoChan if absent
    mu,         \* s.mu: the worker that has it locked, or Free
    closed,     \* the channels that have been closed
    started,    \* the number of scenarios started so far
    pc,         \* where each worker is
    ctx,        \* ctx.Value(s.ctxKey) of the worker's scenario context
    lockName,   \* acquireLock: argument lockName of the call in progress or just failed
    lock,       \* acquireLock: local variable lock
    ret,        \* result of the worker's last acquireLock call
    todo,       \* After hook: keys the range loop has not produced yet
    errs,       \* After hook: local variable errs
    hookRet,    \* error returned by the worker's last After hook
    got,        \* names for which acquireLock returned without error in this scenario
    waited,     \* the current acquireLock call has blocked on a channel
    waiters,    \* <<worker, name>> of each worker whose latest acquireLock call has
                \* blocked, in the order in which the calls blocked
    wasHeld,    \* names the scenario held when its After hook took the guard
    calls,      \* the invocations of s.onRelease during the After hook: <<name, failed>>
    statusMap,  \* statusMap: the codes whose phrase is a key of the map
    spc,        \* statusCode: where the call is
    sin,        \* statusCode: argument statusOrCode
    sout,       \* statusCode: the result of the call
    mocks,      \* ExternalServer.mocks: service -> [exp, srv]
    step,       \* the step of ExternalServer each worker is running
    used,       \* channel -> the services its scenario has got from mock()
    run,        \* one step of ExternalServer, from its call to its return
    ilocks,     \* two instances: instance -> its s.locks
    imu,        \* two instances: instance -> the worker that has its s.mu
    iclosed,    \* two instances: the channels that have been closed
    imade,      \* two instances: the number of channels made
    ictx,       \* two instances: worker -> context key -> value
    ipc,        \* two instances: where each worker is
    icall,      \* two instances: worker -> [inst, name, lock] of its call
    iret,       \* two instances: worker -> result of its last acquireLock
    itodo,      \* two instances: worker -> names its After hook has to visit
    idone,      \* two instances: worker -> instances whose After hook has run
    ilog,       \* two instances: worker -> <<instance, name>> of the callbacks
    services,   \* LocalClient.services: the names AddService was called with
    lpc,        \* LocalClient: where the scenario is
    lstep,      \* LocalClient: the error the last step returned
    retry,      \* LocalClient: the back-off the last retry step installed
    lerr,       \* afterScenario: argument err
    lother,     \* the services whose client has unexpected other responses
    ltodo,      \* afterScenario: names the range loop has not produced yet
    lerrs,      \* afterScenario: local variable errs
    lchecked,   \* afterScenario: the services whose client it has checked
    lret,       \* afterScenario: the error it returns
    relTodo,    \* release check: the services still to be checked
    relCalls,   \* release check: the calls of the callback, <<service, error>>
    relRet      \* release check: the error the After hook returns

\* The state of the scenario lock (sync.go).
syncVars == <<locks, mu, closed, started, pc, ctx, lockName, lock, ret, todo, errs,
              hookRet, got, waited, waiters, wasHeld, calls>>

\* The state of statusCode and its map.
statusVars == <<statusMap, spc, sin, sout>>

\* The state of ExternalServer (external_server.go).
mockVars == <<mocks, step, used>>

\* The release check of ExternalServer at the end of a scenario.
relVars == <<relTodo, relCalls, relRet>>

\* A step of ExternalServer followed from the call to the return.
runVars == <<run>>

\* Two instances of the lock registered on the same scenarios.
pairVars == <<ilocks, imu, iclosed, imade, ictx, ipc, icall, iret, itodo, idone,
              ilog>>

\* What is not part of the scenario lock.
\* The state of LocalClient (doc.go).
clientVars == <<services, lpc, lstep, retry, lerr, lother, ltodo, lerrs, lchecked,
                lret>>

extVars == <<statusVars, mockVars, relVars, runVars, pairVars, clientVars>>

vars == <<syncVars, extVars>>

lockVars == <<locks, mu, closed>>
acqVars  == <<lockName, lock, ret, waited, waiters>>
hookVars == <<todo, errs, hookRet, wasHeld, calls>>

NoName == ""         \* no lockName: the worker is not inside acquireLock

\* ------------------------------------------------------------- pure helpers
\* strings.Join(elems, sep)
RECURSIVE Join(_, _)
Join(elems, sep) ==
    IF Len(elems) = 0 THEN <<>>
    ELSE IF Len(elems) = 1 THEN <<elems[1]>>
    ELSE <<elems[1], sep>> \o Join(Tail(elems), sep)

\* strings.Contains on the joined text, for one message
Contains(text, msg) == \E i \in 1..Len(text) : text[i] = msg

\* The keys of the map s.locks.
Keys(m) == {k \in Names : m[k] # NoChan}

\* The names the registry records for channel c.
HeldBy(c) == {k \in Names : c # NoChan /\ locks[k] = c}

\* ------------------------------------------------------------------- Init
\* newSynchronized: an empty map, an unlocked mutex; no scenario has started.
SyncInit ==
    /\ locks = [k \in Names |-> NoChan]
    /\ mu = Free
    /\ closed = {}
    /\ started = 0
    /\ pc = [w \in Workers |-> "idle"]
    /\ ctx = [w \in Workers |-> NoChan]
    /\ lockName = [w \in Workers |-> NoName]
    /\ lock = [w \in Workers |-> NoChan]
    /\ ret = [w \in Workers |-> "none"]
    /\ todo = [w \in Workers |-> {}]
    /\ errs = [w \in Workers |-> <<>>]
    /\ hookRet = [w \in Workers |-> <<"none">>]
    /\ got = [w \in Workers |-> {}]
    /\ waited = [w \in Workers |-> FALSE]
    /\ waiters = <<>>
    /\ wasHeld = [w \in Workers |-> {}]
    /\ calls = [w \in Workers |-> <<>>]

\* func init() has filled statusMap; no call of statusCode is running.
StatusInit ==
    /\ statusMap = {i \in StatusMin..(StatusEnd - 1) : StatusText(i) # <<>>}
    /\ spc = "idle"
    /\ sin = <<>>
    /\ sout = NoResult

\* No release check is running.
RelInit ==
    /\ relTodo = {}
    /\ relCalls = <<>>
    /\ relRet = <<"none">>

\* No step of ExternalServer is running, none has run.
StepInit ==
    /\ run = NoRun
    /\ step = [w \in Workers |-> NoStep]
    /\ used = [c \in Chans |-> {}]

\* newSynchronized for each instance; no scenario has started.
PairInit ==
    /\ ilocks = [i \in Insts |-> [k \in Names |-> NoChan]]
    /\ imu = [i \in Insts |-> Free]
    /\ iclosed = {}
    /\ imade = 0
    /\ ictx = [w \in Workers |-> [i \in Insts |-> NoChan]]
    /\ ipc = [w \in Workers |-> "idle"]
    /\ icall = [w \in Workers |-> NoCall]
    /\ iret = [w \in Workers |-> "none"]
    /\ itodo = [w \in Workers |-> {}]
    /\ idone = [w \in Workers |-> {}]
    /\ ilog = [w \in Workers |-> {}]

\* NewLocalClient and AddService have registered the names ss; no scenario
\* runs.
ClientInit(ss) ==
    /\ services = ss
    /\ lpc = "idle"
    /\ lstep = "none"
    /\ retry = NoRetry
    /\ lerr = "nil"
    /\ lother = {}
    /\ ltodo = {}
    /\ lerrs = <<>>
    /\ lchecked = {}
    /\ lret = <<"none">>

\* The state after construction: Add has been called for every service.
Init ==
    /\ SyncInit
    /\ StatusInit
    /\ RelInit
    /\ StepInit
    /\ PairInit
    /\ ClientInit({<<Default>>})
    /\ mocks = [k \in Names |-> NewMock]

\* Start of a scenario on worker w with identity c (NoChan: none attached).
StartScenario(w, c) ==
    /\ started' = started + 1
    /\ pc' = [pc EXCEPT ![w] = "steps"]
    /\ ctx' = [ctx EXCEPT ![w] = c]
    /\ ret' = [ret EXCEPT ![w] = "none"]
    /\ UNCHANGED <<lockVars, lockName, lock, waited, waiters, hookVars, got>>
    /\ UNCHANGED extVars

\* Mutant of NewChan: one channel, made once, is attached to every scenario.
NewChanShared(n) == 1

\* Line 69: make(chan struct{}) returns a channel that is no channel made
\* before; the n-th scenario gets channel n.
NewChan(n) == n

\* Before hook: lock := make(chan struct{}); context.WithValue(ctx, s.ctxKey, lock)
BeforeScenario(w) ==
    /\ pc[w] = "idle"
    /\ started < MaxScenarios
    /\ StartScenario(w, NewChan(started + 1))

\* A scenario whose context never went through the Before hook.
UnhookedScenario(w) ==
    /\ pc[w] = "idle"
    /\ started < MaxScenarios
    /\ StartScenario(w, NoChan)

\* ------------------------------------------------------------ acquireLock
\* Mutant of HasIdentity: the result ok of the type assertion is ignored.
HasIdentityUnchecked(c) == TRUE

\* currentLock, ok := ctx.Value(s.ctxKey).(chan struct{})
HasIdentity(c) == c # NoChan

\* Mutant of CanLock: the mutex is not waited for.
CanLockAlways(m) == TRUE

\* s.mu.Lock() returns when the mutex is unlocked.
CanLock(m) == m = Free

\* The record of the blocked calls without the entry of worker w.
Without(q, w) == SelectSeq(q, LAMBDA e : e[1] # w)

\* Lines 33-39: a step of the scenario calls s.acquireLock(ctx, key).  Without
\* identity the call returns (false, errMissingScenarioLock) at once; otherwise
\* it goes on to s.mu.Lock(), which blocks while the mutex is taken.
AcquireCall(w, key) ==
    /\ pc[w] = "steps"
    /\ IF ~HasIdentity(ctx[w])
       THEN /\ ret' = [ret EXCEPT ![w] = errMissingScenarioLock]
            /\ UNCHANGED <<mu, pc>>
       ELSE /\ CanLock(mu)
            /\ mu' = w
            /\ pc' = [pc EXCEPT ![w] = "acq_crit"]
            /\ ret' = [ret EXCEPT ![w] = "none"]
    /\ lockName' = [lockName EXCEPT ![w] = key]
    /\ waiters' = Without(waiters, w)
    /\ UNCHANGED <<locks, closed, started, ctx, lock, waited, hookVars, got>>
    /\ UNCHANGED extVars

\* Mutant of Lookup: one lock for all names (the name is ignored).
LookupAnyName(m, key) ==
    IF Keys(m) = {} THEN NoChan ELSE m[CHOOSE k \in Keys(m) : TRUE]

\* Line 40: lock := s.locks[lockName]
Lookup(m, key) == m[key]

\* Mutant of Registered: the entry is written without the test for nil.
RegisteredUnchecked(m, key, cur) == [m EXCEPT ![key] = cur]

\* Lines 42-48: if lock == nil { s.locks[lockName] = currentLock }
Registered(m, key, cur) ==
    IF Lookup(m, key) = NoChan THEN [m EXCEPT ![key] = cur] ELSE m

\* Mutant of MustWait: the comparison with currentLock is inverted.
MustWaitInverted(l, cur) == l # NoChan /\ l = cur

\* Line 53: lock != nil && lock != currentLock
MustWait(l, cur) == l # NoChan /\ l # cur

\* Mutant of AcquireResult: the two results are swapped.
AcquireResultSwapped(l) == IF l = NoChan THEN "false" ELSE "true"

\* Lines 59-63: true for a fresh acquisition, false for a repeated one.
AcquireResult(l) == IF l = NoChan THEN "true" ELSE "false"

\* Mutant of Unlocked: acquireLock keeps the mutex when it leaves the
\* critical section.
UnlockedNever(w) == w

\* Line 50: s.mu.Unlock()
Unlocked(w) == Free

\* Lines 40-63: lock := s.locks[lockName], the insertion, s.mu.Unlock(), and
\* then either the start of the wait for the alien lock or the return.
AcquireCrit(w) ==
    /\ pc[w] = "acq_crit"
    /\ mu = w
    /\ locks' = Registered(locks, lockName[w], ctx[w])
    /\ mu' = Unlocked(w)
    /\ IF MustWait(Lookup(locks, lockName[w]), ctx[w])
       THEN /\ pc' = [pc EXCEPT ![w] = "acq_wait"]
            /\ lock' = [lock EXCEPT ![w] = Lookup(locks, lockName[w])]
            /\ waited' = [waited EXCEPT ![w] = TRUE]
            /\ waiters' = IF waited[w] THEN waiters
                                     ELSE Append(waiters, <<w, lockName[w]>>)
            /\ UNCHANGED <<ret, got, lockName>>
       ELSE /\ pc' = [pc EXCEPT ![w] = "steps"]
            /\ ret' = [ret EXCEPT ![w] = AcquireResult(Lookup(locks, lockName[w]))]
            /\ got' = [got EXCEPT ![w] = @ \cup {lockName[w]}]
            /\ lockName' = [lockName EXCEPT ![w] = NoName]
            /\ lock' = [lock EXCEPT ![w] = NoChan]
            /\ waited' = [waited EXCEPT ![w] = FALSE]
            /\ UNCHANGED waiters
    /\ UNCHANGED <<closed, started, ctx, hookVars>>
    /\ UNCHANGED extVars

\* Mutant of CanReceive: the receive does not wait for the close.
CanReceiveOpen(l) == TRUE

\* The receive <-l returns once l is closed.
CanReceive(l) == l \in closed

\* Mutant of AcquireWake: the blocked calls on a name go on in the order in
\* which they blocked.
AcquireWakeInOrder(w) ==
    /\ pc[w] = "acq_wait"
    /\ CanReceive(lock[w])
    /\ \A i, j \in 1..Len(waiters) :
         (i < j /\ waiters[j] = <<w, lockName[w]>> /\ waiters[i][2] = lockName[w])
            => pc[waiters[i][1]] # "acq_wait"
    /\ CanLock(mu)
    /\ mu' = w
    /\ pc' = [pc EXCEPT ![w] = "acq_crit"]
    /\ lock' = [lock EXCEPT ![w] = NoChan]
    /\ UNCHANGED <<locks, closed, started, ctx, lockName, ret, waited, waiters, hookVars, got>>
    /\ UNCHANGED extVars

\* Lines 54-56 and 34-39: <-lock returns, acquireLock calls itself with the same
\* arguments, finds the identity again and takes the mutex.
AcquireWake(w) ==
    /\ pc[w] = "acq_wait"
    /\ CanReceive(lock[w])
    /\ CanLock(mu)
    /\ mu' = w
    /\ pc' = [pc EXCEPT ![w] = "acq_crit"]
    /\ lock' = [lock EXCEPT ![w] = NoChan]
    /\ UNCHANGED <<locks, closed, started, ctx, lockName, ret, waited, waiters, hookVars, got>>
    /\ UNCHANGED extVars

\* ------------------------------------------------------------- After hook
\* Lines 76-87: the After hook of the scenario: s.mu.Lock(); without identity
\* its result is errMissingScenarioLock; otherwise it starts ranging over
\* s.locks.
AfterLock(w) ==
    /\ pc[w] = "steps"
    /\ CanLock(mu)
    /\ IF ~HasIdentity(ctx[w])
       THEN /\ hookRet' = [hookRet EXCEPT ![w] = <<errMissingScenarioLock>>]
            /\ pc' = [pc EXCEPT ![w] = "after_ret"]
            /\ UNCHANGED <<todo, errs, wasHeld, calls>>
       ELSE /\ hookRet' = [hookRet EXCEPT ![w] = <<"none">>]
            /\ todo' = [todo EXCEPT ![w] = Keys(locks)]
            /\ errs' = [errs EXCEPT ![w] = <<>>]
            /\ wasHeld' = [wasHeld EXCEPT ![w] = HeldBy(ctx[w])]
            /\ calls' = [calls EXCEPT ![w] = <<>>]
            /\ pc' = [pc EXCEPT ![w] = "after_loop"]
    /\ mu' = w
    /\ ret' = [ret EXCEPT ![w] = "none"]
    /\ lockName' = [lockName EXCEPT ![w] = NoName]
    /\ waiters' = Without(waiters, w)
    /\ UNCHANGED <<locks, closed, started, ctx, lock, waited, got>>
    /\ UNCHANGED extVars

\* Mutant of Released: no entry is deleted.
ReleasedNone(m, key, cur) == m

\* Mutant of Released: the comparison with currentLock is inverted.
ReleasedOthers(m, key, cur) ==
    IF m[key] # cur THEN [m EXCEPT ![key] = NoChan] ELSE m

\* Mutant of Released: every entry is deleted, whoever owns it.
ReleasedAny(m, key, cur) == [m EXCEPT ![key] = NoChan]

\* Lines 88-90: if lock == currentLock { delete(s.locks, key) }
Released(m, key, cur) ==
    IF m[key] = cur THEN [m EXCEPT ![key] = NoChan] ELSE m

\* Lines 92-96: the callback is invoked for the key the loop is at whenever
\* s.onRelease != nil; the test `lock == currentLock` has ended on line 90.
Notified(m, key, cur) == TRUE

\* Mutant of Collected: only the first error is kept.
CollectedFirst(es, key, failed) ==
    IF failed /\ Len(es) = 0 THEN Append(es, ErrMsg(key)) ELSE es

\* Lines 93-95: errs = append(errs, err.Error()) when the callback failed.
Collected(es, key, failed) == IF failed THEN Append(es, ErrMsg(key)) ELSE es

\* Lines 87-97: one iteration of `for key, lock := range s.locks`; the order of
\* a map range is unspecified, and the outcome of the callback is its own.
AfterIter(w) ==
    /\ pc[w] = "after_loop"
    /\ mu = w
    /\ \E key \in todo[w] :
         /\ todo' = [todo EXCEPT ![w] = @ \ {key}]
         /\ locks' = Released(locks, key, ctx[w])
         /\ IF Notified(locks, key, ctx[w])
            THEN \E failed \in BOOLEAN :
                   /\ calls' = [calls EXCEPT ![w] = Append(@, <<key, failed>>)]
                   /\ errs' = [errs EXCEPT ![w] = Collected(@, key, failed)]
            ELSE UNCHANGED <<calls, errs>>
    /\ UNCHANGED <<mu, closed, started, pc, ctx, acqVars, hookRet, wasHeld, got>>
    /\ UNCHANGED extVars

\* Lines 101-105: errors.New(strings.Join(errs, ", ")) or nil
HookError(es) == IF Len(es) > 0 THEN Join(es, Sep) ELSE <<"nil">>

\* Mutant of Closed: the channel is left open.
ClosedOmitted(cs, c) == cs

\* Line 99: close(currentLock)
Closed(cs, c) == cs \cup {c}

\* Lines 99-105: after the loop close(currentLock); the result of the hook is
\* the joined errors or nil.
AfterClose(w) ==
    /\ pc[w] = "after_loop"
    /\ mu = w
    /\ todo[w] = {}
    /\ closed' = Closed(closed, ctx[w])
    /\ hookRet' = [hookRet EXCEPT ![w] = HookError(errs[w])]
    /\ pc' = [pc EXCEPT ![w] = "after_ret"]
    /\ UNCHANGED <<locks, mu, started, ctx, acqVars, todo, errs, wasHeld, calls, got>>
    /\ UNCHANGED extVars

\* Line 77: the deferred s.mu.Unlock() runs and the hook returns; the scenario
\* and its context are over.
AfterUnlock(w) ==
    /\ pc[w] = "after_ret"
    /\ mu = w
    /\ mu' = Free
    /\ pc' = [pc EXCEPT ![w] = "idle"]
    /\ ctx' = [ctx EXCEPT ![w] = NoChan]
    /\ hookRet' = [hookRet EXCEPT ![w] = <<"none">>]
    /\ got' = [got EXCEPT ![w] = {}]
    /\ errs' = [errs EXCEPT ![w] = <<>>]
    /\ calls' = [calls EXCEPT ![w] = <<>>]
    /\ wasHeld' = [wasHeld EXCEPT ![w] = {}]
    /\ UNCHANGED <<locks, closed, started, acqVars, todo>>
    /\ UNCHANGED extVars

\* ------------------------------------------------------------------- Next
Next ==
    \/ \E w \in Workers : BeforeScenario(w)
    \/ \E w \in Workers : UnhookedScenario(w)
    \/ \E w \in Workers, key \in Names : AcquireCall(w, key)
    \/ \E w \in Workers : AcquireCrit(w)
    \/ \E w \in Workers : AcquireWake(w)
    \/ \E w \in Workers : AfterLock(w)
    \/ \E w \in Workers : AfterIter(w)
    \/ \E w \in Workers : AfterClose(w)
    \/ \E w \in Workers : AfterUnlock(w)

Spec == Init /\ [][Next]_vars

\* Scheduling: goroutines that can run do run; sync.Mutex hands the mutex to
\* every goroutine that keeps asking for it (starvation mode), so Lock is
\* strongly fair; a scenario has finitely many steps and godog always runs
\* its After hook, so the hook is strongly fair against further steps.
Fairness ==
    \A w \in Workers :
        /\ WF_vars(AcquireCrit(w) \/ AfterIter(w) \/ AfterClose(w) \/ AfterUnlock(w))
        /\ SF_vars(AcquireWake(w) \/ AfterLock(w))

FairSpec == Spec /\ Fairness

TypeOK ==
    /\ locks \in [Names -> Chans \cup {NoChan}]
    /\ mu \in Workers \cup {Free}
    /\ closed \subseteq Chans
    /\ pc \in [Workers -> {"idle", "steps", "acq_crit", "acq_wait", "after_loop", "after_ret"}]

\* ============================================================== statusCode
\* statusCode is called by the steps of LocalClient and of ExternalServer; the
\* package variable statusMap is filled by init() before any step runs and is
\* only read afterwards.

errUnknownStatusCode == "unknown http status"

Digit == {"0", "1", "2", "3", "4", "5", "6", "7", "8", "9"}

DigitVal(ch) ==
    CASE ch = "0" -> 0 [] ch = "1" -> 1 [] ch = "2" -> 2 [] ch = "3" -> 3
      [] ch = "4" -> 4 [] ch = "5" -> 5 [] ch = "6" -> 6 [] ch = "7" -> 7
      [] ch = "8" -> 8 [] ch = "9" -> 9

\* The largest int64, in digits, and the first number above it.
MaxInt64 == <<"9", "2", "2", "3", "3", "7", "2", "0", "3", "6",
              "8", "5", "4", "7", "7", "5", "8", "0", "7">>
AboveInt64 == [MaxInt64 EXCEPT ![Len(MaxInt64)] = "8"]

\* The inputs: every string of at most MaxLen characters over Alphabet, the
\* codes and phrases of the table, and a number that does not fit 64 bits.
Alphabet == {"0", "2", "-", "O", "K"}
Inputs ==
    UNION {[1..n -> Alphabet] : n \in 0..MaxLen}
        \cup {<<"2", "0", "4">>, <<"4", "0", "4">>, NoContent, NotFound, AboveInt64}

RECURSIVE StripZeros(_)
StripZeros(d) ==
    IF Len(d) > 1 /\ d[1] = "0" THEN StripZeros(Tail(d)) ELSE d

RECURSIVE DecVal(_)
DecVal(d) ==
    IF Len(d) = 0 THEN 0
    ELSE 10 * DecVal(SubSeq(d, 1, Len(d) - 1)) + DigitVal(d[Len(d)])

\* a > b for two numbers in digits without leading zeros
RECURSIVE DigitsGreater(_, _)
DigitsGreater(a, b) ==
    IF Len(a) # Len(b) THEN Len(a) > Len(b)
    ELSE IF Len(a) = 0 THEN FALSE
    ELSE IF a[1] # b[1] THEN DigitVal(a[1]) > DigitVal(b[1])
    ELSE DigitsGreater(Tail(a), Tail(b))

\* Mutant of ParseInt: a minus sign is not accepted.
ParseUint(s) ==
    IF Len(s) = 0 \/ \E i \in 1..Len(s) : s[i] \notin Digit
    THEN [val |-> 0, err |-> TRUE]
    ELSE IF DigitsGreater(StripZeros(s), MaxInt64)
    THEN [val |-> 0, err |-> TRUE]
    ELSE [val |-> DecVal(StripZeros(s)), err |-> FALSE]

\* strconv.ParseInt(s, 10, 64): an optional sign and one or more digits; a
\* value outside int64 is a range error.  err # nil is all statusCode reads of
\* the error, and then it does not read the value.
ParseInt(s) ==
    LET signed == Len(s) > 0 /\ s[1] \in {"+", "-"}
        neg    == Len(s) > 0 /\ s[1] = "-"
        d      == IF signed THEN Tail(s) ELSE s
        z      == StripZeros(d)
        limit  == IF neg THEN AboveInt64 ELSE MaxInt64
    IN  IF Len(d) = 0 \/ \E i \in 1..Len(d) : d[i] \notin Digit
        THEN [val |-> 0, err |-> TRUE]
        ELSE IF DigitsGreater(z, limit)
        THEN [val |-> 0, err |-> TRUE]
        ELSE [val |-> IF neg THEN 0 - DecVal(z) ELSE DecVal(z), err |-> FALSE]

\* statusMap[key]: the code stored under the phrase, 0 for a missing key.
MapGet(m, key) ==
    IF \E c \in m : StatusText(c) = key
    THEN CHOOSE c \in m : StatusText(c) = key
    ELSE 0

\* code, err := strconv.ParseInt(statusOrCode, 10, 64); if err != nil { code =
\* int64(statusMap[statusOrCode]) }
StatusLookup(m, s) ==
    IF ParseInt(s).err THEN MapGet(m, s) ELSE ParseInt(s).val

\* code 0 is the error, any other code is returned.
StatusResult(code) ==
    IF code = 0 THEN [code |-> 0, err |-> errUnknownStatusCode]
    ELSE [code |-> code, err |-> "nil"]

\* A step calls statusCode(s).
StatusCall(s) ==
    /\ spc = "idle"
    /\ spc' = "called"
    /\ sin' = s
    /\ UNCHANGED <<statusMap, sout, syncVars, mockVars, relVars, runVars, pairVars, clientVars>>

\* The body of statusCode, up to its return.
StatusReturn ==
    /\ spc = "called"
    /\ spc' = "done"
    /\ sout' = StatusResult(StatusLookup(statusMap, sin))
    /\ UNCHANGED <<statusMap, sin, syncVars, mockVars, relVars, runVars, pairVars, clientVars>>

\* The step has used the result.
StatusDone ==
    /\ spc = "done"
    /\ spc' = "idle"
    /\ sin' = <<>>
    /\ sout' = NoResult
    /\ UNCHANGED <<statusMap, syncVars, mockVars, relVars, runVars, pairVars, clientVars>>

StatusNext ==
    \/ \E s \in Inputs : StatusCall(s)
    \/ StatusReturn
    \/ StatusDone

StatusSpec == Init /\ [][StatusNext]_vars

\* ========================================================== ExternalServer
\* The callback NewExternalServer gives to its lock, and the After hook that
\* collects what it returns.  A mock is [exp, srv]: exp is NoExp or <<e>> with
\* e the pending request expectation, srv the numbers of ordered and of async
\* expectations the mock
\* server still waits for.

errNoMockForService == "no mock for service"
\* The text of the source quotes the step with backquotes.
errUndefinedResponse ==
    "undefined response (missing 'responds with status <STATUS>' step)"
NilError == "nil"

Methods == {"GET", "POST"}
URIs == {"/never-called"}

\* The request expectations a `receives ... request` step can leave pending.
Headers == {"X-Foo"}
Times == {0, 2}

\* exp: the httpmock.Expectation under construction and the flag async.
Exps == [Method : Methods, RequestURI : URIs, async : BOOLEAN,
         Unlimited : BOOLEAN, Repeated : Times,
         RequestHeader : SUBSET Headers, ResponseHeader : SUBSET Headers]

\* Lines 284-286: m.exp = &exp{}; m.exp.Method = method;
\* m.exp.RequestURI = requestURI
NewExp(method, requestURI) ==
    [Method |-> method, RequestURI |-> requestURI, async |-> FALSE,
     Unlimited |-> FALSE, Repeated |-> 0,
     RequestHeader |-> {}, ResponseHeader |-> {}]

\* The expectations a `receives ... request` step can make.
NewExps == {NewExp(me, u) : me \in Methods, u \in URIs}

\* The expectations a mock server can wait for.
Servers == {v \in [ordered : 0..MaxUnmet, async : 0..MaxUnmet] :
                v.ordered + v.async <= MaxUnmet}

\* The number of expectations the server waits for.
Waiting(srv) == srv.ordered + srv.async

\* The states of one mock.
MockStates == [exp : {NoExp} \cup {<<e>> : e \in Exps}, srv : Servers]

\* httpmock.Server.ExpectationsWereMet: no expectation is left waiting.
ExpectationsWereMet(srv) == Waiting(srv) = 0

\* Mutant of onRelease: the server's expectations are checked before the
\* pending expectation.
onReleaseMetFirst(ms, service) ==
    IF service \notin DOMAIN ms
    THEN errNoMockForService \o ": " \o service
    ELSE IF ~ExpectationsWereMet(ms[service].srv)
    THEN ErrMsg(service)
    ELSE IF ms[service].exp # NoExp
    THEN errUndefinedResponse \o " in " \o service \o " for "
            \o ms[service].exp[1].Method \o " " \o ms[service].exp[1].RequestURI
    ELSE NilError

\* Lines 24-41 of external_server.go: the release callback.
onRelease(ms, service) ==
    IF service \notin DOMAIN ms
    THEN errNoMockForService \o ": " \o service
    ELSE IF ms[service].exp # NoExp
    THEN errUndefinedResponse \o " in " \o service \o " for "
            \o ms[service].exp[1].Method \o " " \o ms[service].exp[1].RequestURI
    ELSE IF ~ExpectationsWereMet(ms[service].srv)
    THEN ErrMsg(service)
    ELSE NilError

\* The messages of the failed calls, in the order of the calls.
RECURSIVE Messages(_)
Messages(cs) ==
    IF Len(cs) = 0 THEN <<>>
    ELSE IF cs[1][2] = NilError THEN Messages(Tail(cs))
    ELSE <<cs[1][2]>> \o Messages(Tail(cs))

\* The mocks an ExternalServer can have when a scenario ends: some of the
\* services have one, each in any of its states.
ReleaseInit ==
    /\ SyncInit
    /\ StatusInit
    /\ RelInit
    /\ StepInit
    /\ PairInit
    /\ ClientInit({<<Default>>})
    /\ mocks \in UNION {[D -> MockStates] : D \in SUBSET Names}

\* The After hook starts its loop over the names in the registry.
ReleaseStart(held) ==
    /\ relTodo = {} /\ relRet = <<"none">>
    /\ held # {}
    /\ relTodo' = held
    /\ relCalls' = <<>>
    /\ UNCHANGED <<relRet, mockVars, statusVars, syncVars, runVars, pairVars, clientVars>>

\* One iteration: the callback is called for a name and its error is kept.
ReleaseIter ==
    /\ \E key \in relTodo :
          /\ relTodo' = relTodo \ {key}
          /\ relCalls' = Append(relCalls, <<key, onRelease(mocks, key)>>)
          /\ relRet' = IF relTodo' = {} THEN HookError(Messages(relCalls'))
                        ELSE relRet
    /\ UNCHANGED <<mockVars, statusVars, syncVars, runVars, pairVars, clientVars>>

ReleaseNext ==
    \/ \E held \in SUBSET Names : ReleaseStart(held)
    \/ ReleaseIter

ReleaseSpec == ReleaseInit /\ [][ReleaseNext]_vars

\* ------------------------------------------------- steps of ExternalServer
\* The steps `receives ... request` and `responds with status` of scenarios
\* that run concurrently, over the lock of the services.

Kinds == {"receives", "responds"}

MockWorkers == 1..NumMockWorkers

\* Lines 193-198 of external_server.go: a step calls e.mock(ctx, service); the
\* service is found in e.mocks and e.lock.Acquire is about to be called.
MockCall(w, kind, key) ==
    /\ pc[w] = "steps"
    /\ step[w] = NoStep
    /\ key \in DOMAIN mocks
    /\ step' = [step EXCEPT ![w] = [kind |-> kind, key |-> key]]
    /\ ret' = [ret EXCEPT ![w] = "none"]
    /\ UNCHANGED <<lockVars, started, pc, ctx, lockName, lock, waited, waiters, hookVars, got>>
    /\ UNCHANGED <<mocks, used, statusVars, relVars, runVars, pairVars, clientVars>>

\* Line 198: acquired, err := e.lock.Acquire(ctx, service)
MockAcquire(w) ==
    /\ step[w] # NoStep
    /\ ret[w] = "none"
    /\ AcquireCall(w, step[w].key)

\* c.exp = nil; c.srv.ResetExpectations()
ResetMock == [exp |-> NoExp, srv |-> [ordered |-> 0, async |-> 0]]

\* Mutant of Prepared: the mock is reset at every use.
PreparedAlways(m, acquired) == ResetMock

\* Lines 204-207: if acquired { c.exp = nil; c.srv.ResetExpectations() }
Prepared(m, acquired) == IF acquired THEN ResetMock ELSE m

\* Lines 280-286, serviceReceivesRequest: with an expectation pending the step
\* fails, otherwise the expectation x becomes the pending one.
Received(m, x) == IF m.exp # NoExp THEN m ELSE [m EXCEPT !.exp = <<x>>]

\* Mutant of Expected: every expectation is added as an ordered one.
ExpectedOrdered(srv, async) == [srv EXCEPT !.ordered = @ + 1]

\* Lines 345-349: m.srv.ExpectAsync(...) if pending.async, else m.srv.Expect(...)
Expected(srv, async) ==
    IF async THEN [srv EXCEPT !.async = @ + 1]
    ELSE [srv EXCEPT !.ordered = @ + 1]

\* Lines 172-183 and 335-349, serviceRespondsWithStatusAndPreparedBody: without a
\* pending expectation the step fails, otherwise the pending expectation is
\* handed to the mock server.
Responded(m) ==
    IF m.exp = NoExp THEN m
    ELSE [exp |-> NoExp, srv |-> Expected(m.srv, m.exp[1].async)]

\* Lines 199-209 and the body of the step: Acquire has returned; on an error
\* the step fails, otherwise the mock is reset if acquired and the step works
\* on it.
MockReturn(w) ==
    /\ pc[w] = "steps"
    /\ step[w] # NoStep
    /\ ret[w] # "none"
    /\ IF ret[w] = errMissingScenarioLock
       THEN UNCHANGED <<mocks, used>>
       ELSE /\ \E x \in NewExps :
                 mocks' = [mocks EXCEPT ![step[w].key] =
                     IF step[w].kind = "receives"
                     THEN Received(Prepared(@, ret[w] = "true"), x)
                     ELSE Responded(Prepared(@, ret[w] = "true"))]
            /\ Waiting(mocks'[step[w].key].srv) <= MaxUnmet
            /\ used' = [used EXCEPT ![ctx[w]] = @ \cup {step[w].key}]
    /\ step' = [step EXCEPT ![w] = NoStep]
    /\ UNCHANGED <<syncVars, statusVars, relVars, runVars, pairVars, clientVars>>

\* The application under test sends a request the mock server waits for.
Request(key) ==
    /\ key \in DOMAIN mocks
    /\ \E f \in {"ordered", "async"} :
          /\ mocks[key].srv[f] > 0
          /\ mocks' = [mocks EXCEPT ![key].srv[f] = @ - 1]
    /\ UNCHANGED <<step, used, syncVars, statusVars, relVars, runVars, pairVars, clientVars>>

\* The After hook of the lock runs when the steps of the scenario are over.
MockAfterLock(w) ==
    /\ step[w] = NoStep
    /\ AfterLock(w)

\* One iteration of the loop of the After hook with the callback of
\* NewExternalServer as s.onRelease.
MockAfterIter(w) ==
    /\ pc[w] = "after_loop"
    /\ mu = w
    /\ \E key \in todo[w] :
         /\ todo' = [todo EXCEPT ![w] = @ \ {key}]
         /\ locks' = Released(locks, key, ctx[w])
         /\ calls' = [calls EXCEPT ![w] =
                         Append(@, <<key, onRelease(mocks, key) # NilError>>)]
         /\ errs' = [errs EXCEPT ![w] =
                         IF onRelease(mocks, key) # NilError
                         THEN Append(@, onRelease(mocks, key)) ELSE @]
    /\ UNCHANGED <<mu, closed, started, pc, ctx, acqVars, hookRet, wasHeld, got>>
    /\ UNCHANGED extVars

ExternalNext ==
    \/ \E w \in MockWorkers : started < MaxMockScenarios /\ BeforeScenario(w)
    \/ \E w \in MockWorkers : started < MaxMockScenarios /\ UnhookedScenario(w)
    \/ \E w \in MockWorkers, kind \in Kinds, key \in Names : MockCall(w, kind, key)
    \/ \E w \in MockWorkers : MockAcquire(w)
    \/ \E w \in MockWorkers : AcquireCrit(w)
    \/ \E w \in MockWorkers : AcquireWake(w)
    \/ \E w \in MockWorkers : MockReturn(w)
    \/ \E key \in Names : Request(key)
    \/ \E w \in MockWorkers : MockAfterLock(w)
    \/ \E w \in MockWorkers : MockAfterIter(w)
    \/ \E w \in MockWorkers : AfterClose(w)
    \/ \E w \in MockWorkers : AfterUnlock(w)

ExternalSpec == Init /\ [][ExternalNext]_vars

\* --------------------------------------------------- one step, start to end
\* One step of ExternalServer on any mock: the resolution of the service name,
\* the call of Acquire, the reset and the body of the step.  The lock is what
\* Acquire returns, and the calls made to it are recorded.

errUndefinedRequest ==
    "undefined request (missing 'receives <METHOD> request' step)"
errUnknownService == "unknown service"
errUnexpectedExpectations == "unexpected existing expectations"

\* The steps of ExternalServer.steps.
AllKinds == {"receives", "header", "async", "several", "times",
             "response header", "responds"}

\* The steps that configure the pending expectation.
ConfigKinds == {"header", "async", "several", "times", "response header"}

Services == Names \cup {Default}

\* The characters strings.Trim cuts.
Cutset == {"\"", " "}

\* The service as written in the step: the name of a service, of no service or
\* nothing, with quotes and spaces around it.
RawNames ==
    {<<>>, <<" ">>, <<"\"", "\"">>, <<"unknown-service">>,
     <<" ", "\"", "unknown-service", "\"">>}
    \cup {<<n>> : n \in Services}
    \cup {<<" ", "\"", n, "\"">> : n \in Names}

\* The statuses written in a `responds with status` step.
Statuses == {OK, <<"2", "0", "4">>, <<"K", "O">>, <<"0">>}

RECURSIVE TrimLeft(_)
TrimLeft(r) ==
    IF Len(r) > 0 /\ r[1] \in Cutset THEN TrimLeft(Tail(r)) ELSE r

RECURSIVE TrimRight(_)
TrimRight(r) ==
    IF Len(r) > 0 /\ r[Len(r)] \in Cutset
    THEN TrimRight(SubSeq(r, 1, Len(r) - 1)) ELSE r

\* Line 187: strings.Trim(service, `" `)
Trim(r) == TrimRight(TrimLeft(r))

\* Lines 187-191: the trimmed name, Default if it is empty.
Resolved(r) == IF Trim(r) = <<>> THEN Default ELSE Trim(r)[1]

\* Mutant of Found: the lookup of the service is left to the lock.
FoundAny(ms, service) == TRUE

\* Line 193: c, found := e.mocks[service]
Found(ms, service) == service \in DOMAIN ms

\* Lines 325-328: the step `responds with status` resolves the status before
\* anything else.
StatusError(kind, status) ==
    IF kind = "responds"
    THEN StatusResult(StatusLookup(statusMap, status)).err
    ELSE "nil"

\* A step is called with a service and, for `responds`, a status; an unknown
\* status and an unknown service end it at once, otherwise Acquire is next.
RunCall(kind, raw, status) ==
    /\ run.pc = "idle"
    /\ run' =
         IF StatusError(kind, status) # "nil"
         THEN [run EXCEPT !.pc = "done", !.kind = kind, !.raw = raw,
                          !.status = status,
                          !.err = StatusError(kind, status)]
         ELSE IF ~Found(mocks, Resolved(raw))
         THEN [run EXCEPT !.pc = "done", !.kind = kind, !.raw = raw,
                          !.status = status, !.service = Resolved(raw),
                          !.err = errUnknownService \o ": " \o Resolved(raw)]
         ELSE [run EXCEPT !.pc = "acquire", !.kind = kind, !.raw = raw,
                          !.status = status, !.service = Resolved(raw)]
    /\ UNCHANGED <<mocks, step, used, syncVars, statusVars, relVars, pairVars, clientVars>>

\* Line 198: acquired, err := e.lock.Acquire(ctx, service) returns.
RunAcquire(res) ==
    /\ run.pc = "acquire"
    /\ run' = [run EXCEPT !.pc = "body", !.acquired = res,
                          !.acquires = Append(@, run.service)]
    /\ UNCHANGED <<mocks, step, used, syncVars, statusVars, relVars, pairVars, clientVars>>

\* Lines 178-180, pending: without a pending expectation the step fails.
PendingError(m, service) ==
    IF m.exp = NoExp THEN errUndefinedRequest \o ": " \o service ELSE NilError

\* Lines 280-282: with an expectation pending `receives` fails.
ReceivedError(m, service) ==
    IF m.exp # NoExp
    THEN errUnexpectedExpectations \o " for " \o service
    ELSE NilError

\* The bodies of the steps that configure the pending expectation e.
Configured(e, kind) ==
    CASE kind = "header" -> [e EXCEPT !.RequestHeader = @ \cup Headers]
      [] kind = "async" -> [e EXCEPT !.async = TRUE]
      [] kind = "several" -> [e EXCEPT !.Unlimited = TRUE]
      [] kind = "times" -> [e EXCEPT !.Repeated = 2]
      [] kind = "response header" -> [e EXCEPT !.ResponseHeader = @ \cup Headers]

\* The error of the body of a step of the given kind on mock m.
BodyError(kind, m, service) ==
    IF kind = "receives" THEN ReceivedError(m, service)
    ELSE PendingError(m, service)

\* Mutant of BodyMock: `receives` replaces a pending expectation.
BodyMockReplacing(kind, m, x) ==
    IF kind = "receives" THEN [m EXCEPT !.exp = <<x>>]
    ELSE IF kind = "responds" THEN Responded(m)
    ELSE IF m.exp = NoExp THEN m
    ELSE [m EXCEPT !.exp = <<Configured(m.exp[1], kind)>>]

\* The mock the body of a step of the given kind leaves.
BodyMock(kind, m, x) ==
    IF kind = "receives" THEN Received(m, x)
    ELSE IF kind = "responds" THEN Responded(m)
    ELSE IF m.exp = NoExp THEN m
    ELSE [m EXCEPT !.exp = <<Configured(m.exp[1], kind)>>]

\* Lines 199-209 and the body of the step.
RunBody ==
    /\ run.pc = "body"
    /\ IF run.acquired = errMissingScenarioLock
       THEN /\ run' = [run EXCEPT !.pc = "done", !.err = errMissingScenarioLock]
            /\ UNCHANGED mocks
       ELSE \E x \in NewExps :
              /\ mocks' = [mocks EXCEPT ![run.service] =
                    BodyMock(run.kind, Prepared(@, run.acquired = "true"), x)]
              /\ Waiting(mocks'[run.service].srv) <= MaxUnmet
              /\ run' = [run EXCEPT !.pc = "done",
                    !.err = BodyError(run.kind,
                                Prepared(mocks[run.service], run.acquired = "true"),
                                run.service)]
    /\ UNCHANGED <<step, used, syncVars, statusVars, relVars, pairVars, clientVars>>

\* Any mocks: one of the services has one, in any of its states.
RunInit ==
    /\ SyncInit
    /\ StatusInit
    /\ RelInit
    /\ StepInit
    /\ PairInit
    /\ ClientInit({<<Default>>})
    /\ mocks \in UNION {[{n} -> MockStates] : n \in Services}

RunNext ==
    \/ \E kind \in AllKinds, raw \in RawNames, status \in Statuses :
          RunCall(kind, raw, status)
    \/ \E res \in {"true", "false", errMissingScenarioLock} : RunAcquire(res)
    \/ RunBody

RunSpec == RunInit /\ [][RunNext]_vars

\* ------------------------------------------- two instances of the lock
\* LocalClient and ExternalServer each have a lock of their own and register
\* it on the same scenarios: every scenario runs the Before hook and the After
\* hook of both, and its steps call acquireLock of either.

\* Line 24: ctxKey: new(struct{ _ int }), a pointer no other instance has.
CtxKey(i) == i

\* Mutant of RegistryOf: one map for all instances.
RegistryShared(i) == "local"

\* Line 22: locks: make(map[string]chan struct{}), a map of the instance.
RegistryOf(i) == i

\* Lines 68-73: the Before hook of instance i makes a channel and puts it in
\* the context under the key of the instance.
PairBefore(w, i) ==
    /\ ipc[w] \in {"idle", "before"}
    /\ ipc[w] = "idle" => imade < 2 * MaxMockScenarios
    /\ ictx[w][CtxKey(i)] = NoChan
    /\ imade' = imade + 1
    /\ ictx' = [ictx EXCEPT ![w][CtxKey(i)] = NewChan(imade + 1)]
    /\ ipc' = [ipc EXCEPT ![w] =
                 IF \A j \in Insts : ictx'[w][CtxKey(j)] # NoChan
                 THEN "steps" ELSE "before"]
    /\ idone' = [idone EXCEPT ![w] = {}]
    /\ UNCHANGED <<ilocks, imu, iclosed, icall, iret, itodo, ilog>>
    /\ UNCHANGED <<syncVars, statusVars, mockVars, relVars, runVars, clientVars>>

\* Lines 33-39: a step calls acquireLock of instance i and takes its mutex.
PairAcquireCall(w, i, key) ==
    /\ ipc[w] = "steps"
    /\ HasIdentity(ictx[w][CtxKey(i)])
    /\ CanLock(imu[i])
    /\ imu' = [imu EXCEPT ![i] = w]
    /\ icall' = [icall EXCEPT ![w] = [inst |-> i, name |-> key, lock |-> NoChan]]
    /\ iret' = [iret EXCEPT ![w] = "none"]
    /\ ipc' = [ipc EXCEPT ![w] = "acq_crit"]
    /\ UNCHANGED <<ilocks, iclosed, imade, ictx, itodo, idone, ilog>>
    /\ UNCHANGED <<syncVars, statusVars, mockVars, relVars, runVars, clientVars>>

\* Lines 40-63 in the instance of the call.
PairAcquireCrit(w) ==
    /\ ipc[w] = "acq_crit"
    /\ imu[icall[w].inst] = w
    /\ ilocks' = [ilocks EXCEPT ![RegistryOf(icall[w].inst)] =
                    Registered(@, icall[w].name, ictx[w][CtxKey(icall[w].inst)])]
    /\ imu' = [imu EXCEPT ![icall[w].inst] = Unlocked(w)]
    /\ IF MustWait(Lookup(ilocks[RegistryOf(icall[w].inst)], icall[w].name),
                   ictx[w][CtxKey(icall[w].inst)])
       THEN /\ ipc' = [ipc EXCEPT ![w] = "acq_wait"]
            /\ icall' = [icall EXCEPT ![w].lock =
                  Lookup(ilocks[RegistryOf(icall[w].inst)], icall[w].name)]
            /\ UNCHANGED iret
       ELSE /\ ipc' = [ipc EXCEPT ![w] = "steps"]
            /\ iret' = [iret EXCEPT ![w] = AcquireResult(
                  Lookup(ilocks[RegistryOf(icall[w].inst)], icall[w].name))]
            /\ UNCHANGED icall
    /\ UNCHANGED <<iclosed, imade, ictx, itodo, idone, ilog>>
    /\ UNCHANGED <<syncVars, statusVars, mockVars, relVars, runVars, clientVars>>

\* Lines 54-56: the receive returns once the channel is closed; the call
\* starts again.
PairAcquireWake(w) ==
    /\ ipc[w] = "acq_wait"
    /\ icall[w].lock \in iclosed
    /\ CanLock(imu[icall[w].inst])
    /\ imu' = [imu EXCEPT ![icall[w].inst] = w]
    /\ ipc' = [ipc EXCEPT ![w] = "acq_crit"]
    /\ icall' = [icall EXCEPT ![w].lock = NoChan]
    /\ UNCHANGED <<ilocks, iclosed, imade, ictx, iret, itodo, idone, ilog>>
    /\ UNCHANGED <<syncVars, statusVars, mockVars, relVars, runVars, clientVars>>

\* Lines 76-87: the After hook of instance i; godog runs the After hooks of a
\* scenario one after the other.
PairAfterLock(w, i) ==
    /\ ipc[w] \in {"steps", "after"}
    /\ i \notin idone[w]
    /\ CanLock(imu[i])
    /\ imu' = [imu EXCEPT ![i] = w]
    /\ icall' = [icall EXCEPT ![w] = [inst |-> i, name |-> "", lock |-> NoChan]]
    /\ itodo' = [itodo EXCEPT ![w] = Keys(ilocks[RegistryOf(i)])]
    /\ ipc' = [ipc EXCEPT ![w] = "after_loop"]
    /\ iret' = [iret EXCEPT ![w] = "none"]
    /\ UNCHANGED <<ilocks, iclosed, imade, ictx, idone, ilog>>
    /\ UNCHANGED <<syncVars, statusVars, mockVars, relVars, runVars, clientVars>>

\* Lines 87-97: one iteration of the loop over the map of the instance, with
\* the call of the callback of the instance.
PairAfterIter(w) ==
    /\ ipc[w] = "after_loop"
    /\ \E key \in itodo[w] :
         /\ itodo' = [itodo EXCEPT ![w] = @ \ {key}]
         /\ ilocks' = [ilocks EXCEPT ![RegistryOf(icall[w].inst)] =
                         Released(@, key, ictx[w][CtxKey(icall[w].inst)])]
         /\ ilog' = [ilog EXCEPT ![w] = @ \cup {<<icall[w].inst, key>>}]
    /\ UNCHANGED <<imu, iclosed, imade, ictx, ipc, icall, iret, idone>>
    /\ UNCHANGED <<syncVars, statusVars, mockVars, relVars, runVars, clientVars>>

\* Lines 99-105 and 77: close(currentLock), the return and the deferred
\* s.mu.Unlock(); after the last After hook the scenario is over.
PairAfterClose(w) ==
    /\ ipc[w] = "after_loop"
    /\ itodo[w] = {}
    /\ iclosed' = Closed(iclosed, ictx[w][CtxKey(icall[w].inst)])
    /\ imu' = [imu EXCEPT ![icall[w].inst] = Free]
    /\ idone' = [idone EXCEPT ![w] = @ \cup {icall[w].inst}]
    /\ icall' = [icall EXCEPT ![w] = NoCall]
    /\ IF idone'[w] = Insts
       THEN /\ ipc' = [ipc EXCEPT ![w] = "idle"]
            /\ ictx' = [ictx EXCEPT ![w] = [i \in Insts |-> NoChan]]
            /\ ilog' = [ilog EXCEPT ![w] = {}]
       ELSE /\ ipc' = [ipc EXCEPT ![w] = "after"]
            /\ UNCHANGED <<ictx, ilog>>
    /\ UNCHANGED <<ilocks, imade, iret, itodo>>
    /\ UNCHANGED <<syncVars, statusVars, mockVars, relVars, runVars, clientVars>>

PairNext ==
    \/ \E w \in MockWorkers, i \in Insts : PairBefore(w, i)
    \/ \E w \in MockWorkers, i \in Insts, key \in Names : PairAcquireCall(w, i, key)
    \/ \E w \in MockWorkers : PairAcquireCrit(w)
    \/ \E w \in MockWorkers : PairAcquireWake(w)
    \/ \E w \in MockWorkers, i \in Insts : PairAfterLock(w, i)
    \/ \E w \in MockWorkers : PairAfterIter(w)
    \/ \E w \in MockWorkers : PairAfterClose(w)

PairSpec == Init /\ [][PairNext]_vars

\* --------------------------------------------- contexts that outlive a scenario
\* A context is a value: code that kept the context of a scenario (a goroutine
\* a step started, a hook that runs after the After hook of the lock) can go on
\* calling acquireLock with it after the After hook has closed its channel.
StaleContext(w, c) ==
    /\ pc[w] = "idle"
    /\ c \in closed
    /\ pc' = [pc EXCEPT ![w] = "steps"]
    /\ ctx' = [ctx EXCEPT ![w] = c]
    /\ ret' = [ret EXCEPT ![w] = "none"]
    /\ UNCHANGED <<lockVars, started, lockName, lock, waited, waiters, hookVars, got>>
    /\ UNCHANGED extVars

\* godog runs the After hook of a scenario once.
AfterOnce(w) ==
    /\ ctx[w] \notin closed
    /\ AfterLock(w)

StaleNext ==
    \/ \E w \in Workers : BeforeScenario(w)
    \/ \E w \in Workers, c \in Chans : StaleContext(w, c)
    \/ \E w \in Workers, key \in Names : AcquireCall(w, key)
    \/ \E w \in Workers : AcquireCrit(w)
    \/ \E w \in Workers : AcquireWake(w)
    \/ \E w \in Workers : AfterOnce(w)
    \/ \E w \in Workers : AfterIter(w)
    \/ \E w \in Workers : AfterClose(w)
    \/ \E w \in Workers : AfterUnlock(w)

StaleSpec == Init /\ [][StaleNext]_vars

\* ============================================================= LocalClient
\* The steps of LocalClient that matter at the end of a scenario and for the
\* retries of a request (doc.go).  httpmock.Client and the exponential back-off
\* are libraries: of the client the model keeps whether its check of the other
\* responses fails, of eb.NextBackOff() that it returns a delay or Stop.

\* The invocations of the installed back-off that are followed.
MaxCalls == 4

errOtherResponses == "unexpected response status"
errRetryLimit == "parsing retry limit"

\* The names LocalClient can be given: NewLocalClient registers Default,
\* AddService any name, here one name as the steps write it, the same name
\* with a space before it and the empty name.
LocalNames == {<<Default>>, <<"service-one">>, <<" ", "service-one">>, <<>>}

\* The service as the steps write it.
LocalRaw ==
    {<<>>, <<" ", "\"", "service-one", "\"">>, <<" ", "\"", "unknown-service", "\"">>}

SuffixTime == <<" ", "t", "i", "m", "e">>
SuffixTimes == SuffixTime \o <<"s">>

\* The limits written in the step `I retry HTTP request up to ...`.
Tries ==
    {<<"1">> \o SuffixTime, <<"1">> \o SuffixTimes, <<"2">> \o SuffixTimes,
     <<"3">> \o SuffixTimes, <<"3">> \o SuffixTime \o SuffixTimes,
     <<"0">> \o SuffixTimes, AboveInt64 \o SuffixTimes, <<"3">>,
     <<"1", "2", "0", "s">>, <<"0">>, <<"s", "o", "o", "n">>}

\* The text of a name.
RECURSIVE Text(_)
Text(r) == IF Len(r) = 0 THEN "" ELSE r[1] \o Text(Tail(r))

\* Lines 916-931: Service trims the name, takes Default for the empty name and
\* looks the client up; the client is then forked for the scenario.
Service(ss, r) ==
    LET service == IF Trim(r) = <<>> THEN <<Default>> ELSE Trim(r)
    IN  [found |-> service \in ss,
         service |-> service,
         err |-> IF service \in ss THEN "nil"
                 ELSE errUnknownService \o ": " \o Text(service)]

\* The services a step can reach, the only ones that can have responses.
Reachable(ss) == {k \in ss : Trim(k) = k /\ k # <<>>}

\* strings.TrimSuffix(s, suffix)
TrimSuffix(s, suffix) ==
    IF Len(s) >= Len(suffix) /\ SubSeq(s, Len(s) - Len(suffix) + 1, Len(s)) = suffix
    THEN SubSeq(s, 1, Len(s) - Len(suffix))
    ELSE s

\* strconv.Atoi(s): ParseInt(s, 10, 0) with the 64 bits of int.
Atoi(s) == ParseInt(s)

\* time.ParseDuration(s) for the limits of Tries: "0", or digits and one of the
\* units s, m and h; anything else is an error.
ParseDuration(s) ==
    IF s = <<"0">> THEN [err |-> FALSE]
    ELSE IF /\ Len(s) >= 2
            /\ s[Len(s)] \in {"s", "m", "h"}
            /\ \A i \in 1..(Len(s) - 1) : s[i] \in Digit
    THEN [err |-> FALSE]
    ELSE [err |-> TRUE]

\* A scenario starts; the client of a service is forked for it when a step
\* first asks for it, without retries.
LocalScenario ==
    /\ lpc = "idle"
    /\ lpc' = "steps"
    /\ lstep' = "none"
    /\ retry' = NoRetry
    /\ lret' = <<"none">>
    /\ lerrs' = <<>>
    /\ lchecked' = {}
    /\ lerr' = "nil"
    /\ lother' = {}
    /\ UNCHANGED <<services, ltodo>>
    /\ UNCHANGED <<syncVars, statusVars, mockVars, relVars, runVars, pairVars>>

\* Lines 840-876: the step `I retry HTTP request up to ...`.
iRetry(service, tries) ==
    LET c == Service(services, service)
        t == TrimSuffix(TrimSuffix(tries, SuffixTimes), SuffixTime)
        n == Atoi(t)
    IN  /\ lpc = "steps"
        /\ IF ~c.found
           THEN /\ lstep' = c.err
                /\ UNCHANGED retry
           ELSE IF ~n.err /\ n.val > 0
           THEN /\ retry' = [kind |-> "tries", maxTries |-> n.val, tries |-> n.val,
                             eb |-> 0, out |-> <<>>]
                /\ lstep' = "nil"
           ELSE IF ParseDuration(t).err
           THEN /\ lstep' = errRetryLimit
                /\ UNCHANGED retry
           ELSE /\ retry' = [kind |-> "elapsed", maxTries |-> 0, tries |-> 0,
                             eb |-> 0, out |-> <<>>]
                /\ lstep' = "nil"
        /\ UNCHANGED <<services, lpc, lerr, lother, ltodo, lerrs, lchecked, lret>>
        /\ UNCHANGED <<syncVars, statusVars, mockVars, relVars, runVars, pairVars>>

\* Mutant of Exhausted: the last try is followed by one more.
ExhaustedBelow(m) == m < 0

\* Lines 853-855: if maxTries <= 0 { return backoff.Stop }
Exhausted(m) == m <= 0

\* Lines 850-858 and 872: the client asks the installed back-off what to do
\* after a response that is not the expected one; next is what
\* eb.NextBackOff() returns if it is asked.
NextBackOff(next) ==
    /\ lpc = "steps"
    /\ retry.kind # "none"
    /\ Len(retry.out) < MaxCalls
    /\ retry' =
         IF retry.kind = "tries" /\ Exhausted(retry.maxTries - 1)
         THEN [retry EXCEPT !.maxTries = @ - 1, !.out = Append(@, "Stop")]
         ELSE IF retry.kind = "tries"
         THEN [retry EXCEPT !.maxTries = @ - 1, !.eb = @ + 1,
                            !.out = Append(@, next)]
         ELSE [retry EXCEPT !.eb = @ + 1, !.out = Append(@, next)]
    /\ UNCHANGED <<services, lpc, lstep, lerr, lother, ltodo, lerrs, lchecked, lret>>
    /\ UNCHANGED <<syncVars, statusVars, mockVars, relVars, runVars, pairVars>>

\* Lines 239-244: godog calls the After hook with the error of the scenario;
\* other are the services whose client has other responses than expected.
afterScenario(err, other) ==
    /\ lpc = "steps"
    /\ other \subseteq Reachable(services)
    /\ lpc' = "after_loop"
    /\ lerr' = err
    /\ lother' = other
    /\ lerrs' = IF err # "nil" THEN <<err>> ELSE <<>>
    /\ ltodo' = services
    /\ lchecked' = {}
    /\ UNCHANGED <<services, lstep, retry, lret>>
    /\ UNCHANGED <<syncVars, statusVars, mockVars, relVars, runVars, pairVars>>

\* Lines 248-250: the name is looked up as the steps do it.
ServiceMessage(service, err) == Text(service) \o ": " \o err

\* Lines 254-256
OtherMessage(service, err) ==
    "no other responses expected for " \o Text(service) \o ": " \o err

\* Lines 246-257: one iteration of the loop over l.services, in the order the
\* map gives.
AfterScenarioIter ==
    /\ lpc = "after_loop"
    /\ \E service \in ltodo :
         LET c == Service(services, service)
         IN  /\ ltodo' = ltodo \ {service}
             /\ IF ~c.found
                THEN /\ lerrs' = Append(lerrs, ServiceMessage(service, c.err))
                     /\ UNCHANGED lchecked
                ELSE /\ lchecked' = lchecked \cup {c.service}
                     /\ lerrs' = IF c.service \in lother
                                 THEN Append(lerrs,
                                        OtherMessage(service, errOtherResponses))
                                 ELSE lerrs
    /\ UNCHANGED <<services, lpc, lstep, retry, lerr, lother, lret>>
    /\ UNCHANGED <<syncVars, statusVars, mockVars, relVars, runVars, pairVars>>

\* Mutant of LocalError: only the first error is reported.
LocalErrorFirst(es) == IF Len(es) > 0 THEN <<es[1]>> ELSE <<"nil">>

\* Lines 259-263: errors.New(strings.Join(errs, "\n")) or nil
LocalError(es) == IF Len(es) > 0 THEN Join(es, "\n") ELSE <<"nil">>

\* Lines 259-263: the hook returns.
AfterScenarioReturn ==
    /\ lpc = "after_loop"
    /\ ltodo = {}
    /\ lret' = LocalError(lerrs)
    /\ lpc' = "idle"
    /\ UNCHANGED <<services, lstep, retry, lerr, lother, ltodo, lerrs, lchecked>>
    /\ UNCHANGED <<syncVars, statusVars, mockVars, relVars, runVars, pairVars>>

LocalInit ==
    /\ SyncInit
    /\ StatusInit
    /\ RelInit
    /\ StepInit
    /\ PairInit
    /\ mocks = [k \in Names |-> NewMock]
    /\ \E ss \in SUBSET LocalNames : <<Default>> \in ss /\ ClientInit(ss)

LocalNext ==
    \/ LocalScenario
    \/ \E service \in LocalRaw, tries \in Tries : iRetry(service, tries)
    \/ \E next \in {"delay", "Stop"} : NextBackOff(next)
    \/ \E err \in {"nil", "step failed"}, other \in SUBSET LocalNames :
          afterScenario(err, other)
    \/ AfterScenarioIter
    \/ AfterScenarioReturn

LocalSpec == LocalInit /\ [][LocalNext]_vars

\* =================================================================== claims
\* The worker is inside acquireLock.
InAcquire(w) == pc[w] \in {"acq_crit", "acq_wait"}

\* The After hook of the worker's scenario has finished its loop and closed
\* the channel; its result is in hookRet.
HookRan(w) == pc[w] = "after_ret" /\ ctx[w] # NoChan

CallNames(w) == {calls[w][i][1] : i \in 1..Len(calls[w])}
FailedNames(w) == {calls[w][i][1] : i \in {j \in 1..Len(calls[w]) : calls[w][j][2]}}

\* C1 -- Mutual exclusion: no two scenarios have both had acquireLock return
\* without error for the same name and not yet finished their After hook, and
\* the registry records the scenario that did as the holder of the name.
C1_MutualExclusion ==
    \A a \in Workers, k \in Names :
        k \in got[a] =>
            /\ locks[k] = ctx[a] \/ (pc[a] \in {"after_loop", "after_ret"} /\ locks[k] = NoChan)
            /\ \A b \in Workers \ {a} : k \notin got[b]

\* C1 witness: a scenario holds a name while another one is blocked on it.
C1_Witness ==
    \E a, b \in Workers, k \in Names :
        /\ a # b /\ k \in got[a] /\ pc[a] = "steps"
        /\ pc[b] = "acq_wait" /\ lockName[b] = k /\ lock[b] = ctx[a]

\* C2 -- Cross-scenario serialization: while scenario a holds name k, a call
\* acquireLock(k) of another scenario b does not return; and a call that had to
\* wait returns true with b recorded as the holder and no other holder left.
C2_Serialization ==
    [][\A b \in Workers :
          /\ \A a \in Workers \ {b} :
                (InAcquire(b) /\ lockName[b] \in got[a]) => InAcquire(b)'
          /\ (pc[b] = "acq_crit" /\ waited[b] /\ pc'[b] = "steps") =>
                /\ ret'[b] = "true"
                /\ locks'[lockName[b]] = ctx[b]
                /\ lockName[b] \in got'[b]
                /\ \A a \in Workers \ {b} : lockName[b] \notin got'[a]
      ]_vars

\* C2 witness: b has waited for a holder, the holder's hook has run, and b is
\* in its critical section about to take the free name.
C2_Witness ==
    \E b \in Workers :
        pc[b] = "acq_crit" /\ waited[b] /\ locks[lockName[b]] = NoChan

\* C3 -- Release completeness (as claimed): when the After hook of a scenario
\* has run, the callback was invoked exactly once for each name the scenario
\* held and for no other name.
C3_ReleaseCompleteness ==
    \A w \in Workers :
        HookRan(w) =>
            /\ Len(calls[w]) = Cardinality(wasHeld[w])
            /\ CallNames(w) = wasHeld[w]

\* C4 -- No spurious failure (as claimed): the After hook returns nil whenever
\* the callback failed for none of the names the scenario held.
C4_NoSpuriousFailure ==
    \A w \in Workers :
        (HookRan(w) /\ FailedNames(w) \cap wasHeld[w] = {}) => hookRet[w] = <<"nil">>

\* C5 -- Error aggregation without short-circuit: when the After hook has
\* run, every name the scenario held is out of the registry and had its
\* callback invoked, whichever callbacks failed, and if the callback failed for
\* a held name the result is an error whose text has the message of every
\* failed callback.
C5_ErrorAggregation ==
    \A w \in Workers :
        HookRan(w) =>
            /\ \A k \in wasHeld[w] : locks[k] = NoChan /\ k \in CallNames(w)
            /\ (FailedNames(w) \cap wasHeld[w] # {}) =>
                  /\ hookRet[w] # <<"nil">>
                  /\ \A k \in FailedNames(w) : Contains(hookRet[w], ErrMsg(k))

\* C5 witness: the scenario held both names, the callback failed for the
\* first one the loop came to and not for the second, and the hook has run.
C5_Witness ==
    \E w \in Workers :
        /\ HookRan(w) /\ wasHeld[w] = Names /\ Len(calls[w]) = Cardinality(Names)
        /\ calls[w][1][2] /\ ~calls[w][Len(calls[w])][2]

\* C6 -- Idempotent re-acquire: the call that first gets a name returns true;
\* a call for a name the scenario already got never waits and returns false.
C6_IdempotentReacquire ==
    [][\A w \in Workers :
          /\ (pc[w] = "acq_crit" /\ lockName[w] \in got[w]) =>
                /\ pc'[w] \in {"acq_crit", "steps"}
                /\ pc'[w] = "steps" => (ret'[w] = "false" /\ ~waited[w])
          /\ (pc[w] = "acq_crit" /\ lockName[w] \notin got[w] /\ pc'[w] = "steps") =>
                ret'[w] = "true"
      ]_vars

\* C6 witness: a repeated acquisition has returned false while another
\* scenario is active.
C6_Witness ==
    \E w, v \in Workers :
        /\ w # v /\ pc[w] = "steps" /\ ret[w] = "false" /\ got[w] # {}
        /\ pc[v] # "idle"

\* C7 -- Per-resource state machine: an entry of the registry changes only
\* from absent to the identity of a scenario that is in acquireLock for that
\* name, or from the identity of a scenario to absent in the After hook of
\* that very scenario.
C7_StateMachine ==
    [][\A k \in Names :
          locks'[k] # locks[k] =>
             \/ /\ locks[k] = NoChan
                /\ \E w \in Workers :
                      /\ pc[w] = "acq_crit" /\ lockName[w] = k
                      /\ ctx[w] # NoChan /\ locks'[k] = ctx[w]
             \/ /\ locks'[k] = NoChan
                /\ \E w \in Workers : pc[w] = "after_loop" /\ ctx[w] = locks[k]
      ]_vars

\* C7 witness: b is blocked on the channel of a holder whose hook has run: the
\* name went from held to unheld and b is about to take it.
C7_Witness ==
    \E b \in Workers :
        /\ pc[b] = "acq_wait" /\ lock[b] \in closed
        /\ locks[lockName[b]] = NoChan

\* The scenario with channel c holds name k, or is releasing it in its hook.
HoldsOrReleases(c, k) ==
    \/ locks[k] = c
    \/ \E a \in Workers : ctx[a] = c /\ pc[a] = "after_loop" /\ k \in wasHeld[a]

\* C8 -- Unrelated resources do not block: a call is blocked only on the
\* open channel of the scenario that holds (or is releasing in its hook) the
\* very name it asked for, never with the guard in its hands; a call that
\* finds its name unheld returns true at once.
C8_UnrelatedDoNotBlock ==
    [][\A w \in Workers :
          /\ (pc'[w] = "acq_wait" /\ lock'[w] \notin closed') =>
                (mu' # w /\ HoldsOrReleases(lock[w], lockName[w])')
          /\ (pc[w] = "acq_crit" /\ locks[lockName[w]] = NoChan /\ pc'[w] # pc[w]) =>
                (pc'[w] = "steps" /\ ret'[w] = "true" /\ lockName[w] \in got'[w])
      ]_vars

\* C8 witness: a holds one name, b is blocked on it, and c has got the other
\* name, so a and c are both between their first acquisition and their hook.
C8_Witness ==
    \E a, b, c \in Workers, k1, k2 \in Names :
        /\ a # b /\ b # c /\ a # c /\ k1 # k2
        /\ pc[a] = "steps" /\ k1 \in got[a]
        /\ pc[b] = "acq_wait" /\ lockName[b] = k1 /\ lock[b] \notin closed
        /\ pc[c] = "steps" /\ got[c] = {k2} /\ ret[c] = "true"

\* C10 -- Missing identity on acquireLock: a call with a context without
\* identity returns (false, errMissingScenarioLock) in the step it is made,
\* never enters the critical section or a wait, and leaves the registry, the
\* guard and the channels as they were.
C10_MissingIdentityAcquire ==
    [][\A w \in Workers :
          (/\ pc[w] = "steps" /\ ctx[w] = NoChan
           /\ <<pc[w], ret[w], lockName[w]>>' # <<pc[w], ret[w], lockName[w]>>
           /\ pc'[w] # "after_ret") =>
             /\ pc'[w] = "steps"
             /\ ret'[w] = errMissingScenarioLock
             /\ lockName'[w] \in Names
             /\ locks' = locks /\ mu' = mu /\ closed' = closed
      ]_vars

\* C10 witness: the call failed for a name that another scenario holds.
C10_Witness ==
    \E w \in Workers :
        /\ pc[w] = "steps" /\ ctx[w] = NoChan
        /\ ret[w] = errMissingScenarioLock
        /\ lockName[w] \in Names /\ locks[lockName[w]] # NoChan

Rank(k) == IF k = "service-one" THEN 1 ELSE 2

\* Some scenario is asking for a name ranked below a name it has got.
OutOfOrder ==
    \E v \in Workers :
        InAcquire(v) /\ \E k \in got[v] : Rank(lockName[v]) < Rank(k)

C11_MissingIdentityAfter ==
    [][\A w \in Workers :
          ctx[w] = NoChan =>
             /\ pc'[w] # "after_loop"
             /\ (pc[w] = "steps" /\ pc'[w] = "after_ret") =>
                   /\ hookRet'[w] = <<errMissingScenarioLock>>
                   /\ calls'[w] = <<>> /\ mu' = w
                   /\ locks' = locks /\ closed' = closed
             /\ pc[w] = "after_ret" =>
                   /\ locks' = locks /\ closed' = closed /\ calls'[w] = <<>>
                   /\ pc'[w] # pc[w] => (pc'[w] = "idle" /\ mu' = Free)
      ]_vars

\* C11 witness: the hook of a scenario without identity has returned the
\* error while a name is registered and a contender is blocked on it.
C11_Witness ==
    \E w, v \in Workers :
        /\ pc[w] = "after_ret" /\ ctx[w] = NoChan
        /\ hookRet[w] = <<errMissingScenarioLock>>
        /\ pc[v] = "acq_wait" /\ locks[lockName[v]] = lock[v]

\* C12 -- Guard never held across the wait: a scenario blocked on a channel
\* does not have s.mu; the mutex is either unlocked or in the hands of a
\* scenario that is in the critical section of acquireLock or in its After
\* hook.
C12_GuardNotHeldInWait ==
    \A w \in Workers :
        /\ pc[w] = "acq_wait" => mu # w
        /\ mu = w => pc[w] \in {"acq_crit", "after_loop", "after_ret"}

\* C12 witness: while b is blocked on an open channel, another scenario is in
\* the critical section of acquireLock and a third is waiting as well.
C12_Witness ==
    \E b, v \in Workers :
        /\ b # v /\ pc[b] = "acq_wait" /\ lock[b] \notin closed
        /\ pc[v] = "acq_crit" /\ mu = v

\* C13 -- Identity uniqueness: the channel the Before hook attaches is the
\* identity of no other scenario, live or ended: it is in no context, in no
\* registry entry, not closed and not waited for; and acquireLock returns false
\* only to a scenario that got the name itself.
C13_IdentityUnique ==
    [][\A w \in Workers :
          /\ (pc[w] = "idle" /\ pc'[w] = "steps" /\ ctx'[w] # NoChan) =>
                /\ \A v \in Workers : ctx[v] # ctx'[w] /\ lock[v] # ctx'[w]
                /\ \A k \in Names : locks[k] # ctx'[w]
                /\ ctx'[w] \notin closed
          /\ (pc[w] = "acq_crit" /\ pc'[w] = "steps" /\ ret'[w] = "false") =>
                lockName[w] \in got[w]
      ]_vars

\* C13 witness: two scenarios with different identities are running, one of
\* them holds a name, and the channel of an ended scenario is closed.
C13_Witness ==
    \E a, b \in Workers :
        /\ a # b /\ ctx[a] # NoChan /\ ctx[b] # NoChan /\ ctx[a] # ctx[b]
        /\ pc[a] = "steps" /\ pc[b] = "steps" /\ got[a] # {} /\ closed # {}

\* C16 -- Atomic release: from the moment the After hook has the guard until
\* it returns, the hook owns s.mu and no other scenario is in the critical
\* section of acquireLock or in a hook; while the loop runs the channel is
\* still open and a name the scenario held is registered to it or to nobody,
\* and when the callbacks are done no such name has a holder yet.
C16_AtomicRelease ==
    \A w \in Workers :
        pc[w] \in {"after_loop", "after_ret"} =>
            /\ mu = w
            /\ \A v \in Workers \ {w} :
                  pc[v] \notin {"acq_crit", "after_loop", "after_ret"}
            /\ pc[w] = "after_loop" =>
                  /\ ctx[w] \notin closed
                  /\ \A k \in wasHeld[w] : locks[k] \in {ctx[w], NoChan}
                  /\ \A k \in Names \ wasHeld[w] : locks[k] # ctx[w]
            /\ HookRan(w) => \A k \in wasHeld[w] : locks[k] = NoChan

\* C16 witness: the hook has deleted one of its two entries and not yet the
\* other, while a contender for the deleted name is blocked on its channel.
C16_Witness ==
    \E w, v \in Workers, k \in Names :
        /\ pc[w] = "after_loop" /\ wasHeld[w] = Names
        /\ locks[k] = NoChan /\ todo[w] # {}
        /\ pc[v] = "acq_wait" /\ lock[v] = ctx[w] /\ lockName[v] = k

\* C17 -- Wake and retry from scratch: a blocked call leaves the wait only
\* when the channel it waits on is closed, and then, with the guard, looks the
\* name up anew; a call returns only with its scenario registered as the
\* holder, and true if it had to wait; otherwise it blocks again, on the open
\* channel of the scenario that now holds the name.  Under fair scheduling
\* every call blocked on a closed channel does wake up, and the name gets a
\* holder again.
C17_WakeAndRetry ==
    /\ [][\A w \in Workers :
             /\ (pc[w] = "acq_wait" /\ pc'[w] # "acq_wait") =>
                   /\ pc'[w] = "acq_crit" /\ mu' = w
                   /\ lock[w] \in closed /\ locks[lockName[w]] # lock[w]
             /\ (pc[w] = "acq_crit" /\ pc'[w] = "steps") =>
                   /\ locks'[lockName[w]] = ctx[w]
                   /\ waited[w] => ret'[w] = "true"
             /\ (pc[w] = "acq_crit" /\ pc'[w] = "acq_wait") =>
                   /\ lock'[w] = locks[lockName[w]] /\ lock'[w] \notin closed
                   /\ \E v \in Workers \ {w} :
                         ctx[v] = lock'[w] /\ lockName[w] \in got[v]
          ]_vars
    /\ \A w \in Workers :
          (pc[w] = "acq_wait" /\ lock[w] \in closed) ~> (pc[w] = "acq_crit")
    /\ \A k \in Names :
          (\E w \in Workers : pc[w] = "acq_wait" /\ lock[w] \in closed /\ lockName[w] = k)
              ~> (locks[k] # NoChan)

\* C17 witness: b was woken by the close of the channel it waited on and is
\* retrying, while c, woken before it, has become the new holder of the name:
\* b is about to block again on c's channel.
C17_Witness ==
    \E b, c \in Workers :
        /\ b # c /\ pc[b] = "acq_crit" /\ waited[b]
        /\ locks[lockName[b]] = ctx[c] /\ lockName[b] \in got[c]
        /\ ret[c] = "true" /\ closed # {}

\* C18 -- Complete cleanup before signalling: a channel is closed only by the
\* After hook of its scenario, only once, and only when the registry has no
\* entry of that scenario left; no closed channel is ever registered; and a
\* call woken by the close does not find its name registered to the channel
\* it waited on.
C18_CleanupBeforeSignal ==
    [][/\ closed' # closed =>
             \E w \in Workers :
                /\ pc[w] = "after_loop" /\ pc'[w] = "after_ret"
                /\ ctx[w] \notin closed /\ closed' = closed \cup {ctx[w]}
                /\ HeldBy(ctx[w]) = {} /\ locks' = locks
       /\ \A k \in Names : locks'[k] \notin closed'
       /\ \A w \in Workers :
             /\ HookRan(w)' => (HeldBy(ctx[w])' = {} /\ ctx'[w] \in closed')
             /\ (pc[w] = "acq_wait" /\ pc'[w] = "acq_crit") =>
                   locks'[lockName[w]] # lock[w]
      ]_vars

\* C18 witness: the hook of a scenario that held both names has closed its
\* channel after a failed callback, and a contender is blocked on that channel.
C18_Witness ==
    \E w, v \in Workers :
        /\ HookRan(w) /\ wasHeld[w] = Names /\ hookRet[w] # <<"nil">>
        /\ pc[v] = "acq_wait" /\ lock[v] = ctx[w]

\* C20 -- Holders are live scenarios: every channel in the registry is open
\* and is the identity of a scenario that is between its Before hook and the
\* end of the loop of its After hook; a call that starts to wait does so on a
\* channel that is not closed.
C20_HoldersAreLive ==
    [][/\ \A k \in Names :
             locks'[k] # NoChan =>
                /\ locks'[k] \notin closed'
                /\ \E w \in Workers :
                      /\ ctx'[w] = locks'[k]
                      /\ pc'[w] \in {"steps", "acq_crit", "acq_wait", "after_loop"}
       /\ \A w \in Workers :
             (pc[w] = "acq_crit" /\ pc'[w] = "acq_wait") => lock'[w] \notin closed'
      ]_vars

\* C20 witness: after an earlier scenario has ended, a call starts to wait on
\* the open channel of the scenario that now holds the name.
C20_Witness ==
    \E a, b \in Workers :
        /\ a # b /\ closed # {} /\ pc[a] = "steps"
        /\ pc[b] = "acq_wait" /\ lock[b] = ctx[a] /\ lock[b] \notin closed
        /\ locks[lockName[b]] = ctx[a]

\* A decimal integer: an optional sign and one or more digits.
IsDecimal(s) ==
    LET d == IF Len(s) > 0 /\ s[1] \in {"+", "-"} THEN Tail(s) ELSE s
    IN  Len(d) > 0 /\ \A i \in 1..Len(d) : d[i] \in Digit

\* The decimal integer is 0: all its digits are 0.
IsZero(s) == \A i \in 1..Len(s) : s[i] \in {"+", "-", "0"}

\* The decimal integer fits int64.
FitsInt64(s) ==
    LET neg == s[1] = "-"
        d == IF s[1] \in {"+", "-"} THEN Tail(s) ELSE s
    IN  ~DigitsGreater(StripZeros(d), IF neg THEN AboveInt64 ELSE MaxInt64)

\* The integer a decimal integer denotes.
IntValue(s) ==
    LET d == IF s[1] \in {"+", "-"} THEN Tail(s) ELSE s
    IN  IF s[1] = "-" THEN 0 - DecVal(StripZeros(d)) ELSE DecVal(StripZeros(d))

\* The codes from StatusMin to StatusEnd - 1 whose phrase is s.
CodesOf(s) == {c \in StatusMin..(StatusEnd - 1) : StatusText(c) = s /\ s # <<>>}

\* strconv.Itoa for a code: its three decimal digits.
Decimal(c) ==
    LET ch(n) == CHOOSE x \in Digit : DigitVal(x) = n
    IN  <<ch(c \div 100), ch((c \div 10) % 10), ch(c % 10)>>

\* C15 -- Status resolution (as claimed): a call of statusCode that has
\* returned gave the integer for a decimal integer other than 0, the code for
\* the phrase of a code, and the error errUnknownStatusCode for anything else.
C15_StatusResolution ==
    spc = "done" =>
        IF IsDecimal(sin) /\ ~IsZero(sin)
        THEN /\ sout.err = "nil"
             /\ FitsInt64(sin) => sout.code = IntValue(sin)
        ELSE IF CodesOf(sin) # {}
        THEN sout.err = "nil" /\ sout.code \in CodesOf(sin)
        ELSE sout = [code |-> 0, err |-> errUnknownStatusCode]

\* C15 amended -- the same for a decimal integer other than 0 that fits 64
\* bits; a decimal integer that does not fit gets the error like every other
\* input.  And for every phrase P of a code C, statusCode(P) and
\* statusCode(decimal(C)) are both C.
C15_StatusResolutionInt64 ==
    /\ spc = "done" =>
          IF IsDecimal(sin) /\ ~IsZero(sin) /\ FitsInt64(sin)
          THEN sout = [code |-> IntValue(sin), err |-> "nil"]
          ELSE IF CodesOf(sin) # {}
          THEN sout.err = "nil" /\ CodesOf(sin) = {sout.code}
          ELSE sout = [code |-> 0, err |-> errUnknownStatusCode]
    /\ \A c \in StatusMin..(StatusEnd - 1) :
          StatusText(c) # <<>> =>
             /\ StatusResult(StatusLookup(statusMap, StatusText(c))) = [code |-> c, err |-> "nil"]
             /\ StatusResult(StatusLookup(statusMap, Decimal(c))) = [code |-> c, err |-> "nil"]

\* C15 witness: the call for a decimal integer that does not fit 64 bits has
\* returned the error.
C15_Witness ==
    /\ spc = "done" /\ sin = AboveInt64
    /\ sout = [code |-> 0, err |-> errUnknownStatusCode]

\* The error the release check of service S has to return for the mocks ms.
ExpectedRelease(ms, S, e) ==
    IF S \notin DOMAIN ms
    THEN e = errNoMockForService \o ": " \o S
    ELSE IF ms[S].exp # NoExp
    THEN \E x \in Exps :
            /\ ms[S].exp = <<x>>
            /\ e = errUndefinedResponse \o " in " \o S \o " for "
                    \o x.Method \o " " \o x.RequestURI
    ELSE IF ms[S].srv.ordered + ms[S].srv.async > 0
    THEN e = "expectations were not met for " \o S
    ELSE e = NilError

\* C14: the release check for service S returns the "no mock for service"
\* error if S has no mock; otherwise the "undefined response" error naming S,
\* the method and the request URI if a request expectation is still pending
\* (whatever the mock server still waits for); otherwise the "expectations
\* were not met for S" error if the mock server has unmet expectations;
\* otherwise nil.  The After hook fails exactly when one of its checks
\* returned an error, and its error carries the message of each of them.
C14_ReleaseValidation ==
    /\ \A i \in 1..Len(relCalls) :
          ExpectedRelease(mocks, relCalls[i][1], relCalls[i][2])
    /\ (relRet # <<"none">>) =>
          /\ (relRet # <<"nil">>) <=>
                (\E i \in 1..Len(relCalls) : relCalls[i][2] # NilError)
          /\ \A i \in 1..Len(relCalls) :
                relCalls[i][2] # NilError => Contains(relRet, relCalls[i][2])

\* The hook has failed with two errors: one service had no mock, the other a
\* pending expectation while its server still waited for requests.
C14_Witness ==
    /\ relRet \notin {<<"none">>, <<"nil">>}
    /\ Len(relCalls) = 2
    /\ \E i, j \in 1..2 :
          /\ relCalls[i][1] \notin DOMAIN mocks
          /\ relCalls[i][2] = errNoMockForService \o ": " \o relCalls[i][1]
          /\ relCalls[j][1] \in DOMAIN mocks
          /\ mocks[relCalls[j][1]].exp # NoExp
          /\ mocks[relCalls[j][1]].srv.ordered > 0
          /\ relCalls[j][2] # NilError
          /\ relCalls[j][2] # ErrMsg(relCalls[j][1])

\* The mocks a step of the given kind can leave when it starts from mock m.
AfterStep(m, kind) ==
    IF kind = "receives" THEN {Received(m, x) : x \in NewExps} ELSE {Responded(m)}

\* Worker w ends a step for which Acquire returned without error.
StepEnds(w) ==
    /\ step[w] # NoStep
    /\ step'[w] = NoStep
    /\ ret[w] \in {"true", "false"}

C21_InvalidNotRegistered ==
    /\ \A k \in Names : locks[k] \notin closed
    /\ \A w \in Workers :
          pc[w] = "acq_wait" => ~(lock[w] \in closed /\ locks[lockName[w]] = lock[w])

\* A step on a registered service ends, with an identity in its context.
RunEnds ==
    /\ run.pc # "done"
    /\ run'.pc = "done"
    /\ Found(mocks, Resolved(run'.raw))
    /\ run'.acquired # errMissingScenarioLock

\* The mock of the service of the step that ends, before and after the step.
RunMock == mocks[Resolved(run'.raw)]
RunMockAfter == mocks'[Resolved(run'.raw)]

\* The mock the body of the step finds: the reset one on a first use.
RunFinds == IF run'.acquired = "true" THEN ResetMock ELSE RunMock

C23_Finalization ==
    [][(RunEnds /\ run'.kind = "responds") =>
          /\ (run'.err = NilError) =>
                /\ RunMock.exp # NoExp
                /\ RunMockAfter.exp = NoExp
                /\ IF RunMock.exp[1].async
                   THEN /\ RunMockAfter.srv.async = RunMock.srv.async + 1
                        /\ RunMockAfter.srv.ordered = RunMock.srv.ordered
                   ELSE /\ RunMockAfter.srv.ordered = RunMock.srv.ordered + 1
                        /\ RunMockAfter.srv.async = RunMock.srv.async
          /\ (StatusLookup(statusMap, run'.status) = 0) =>
                /\ run'.err # NilError
                /\ mocks' = mocks
      ]_vars

\* A `responds` step has handed an async expectation to a server that had
\* none and left nothing pending.
C23_Witness ==
    /\ run.pc = "done"
    /\ run.kind = "responds"
    /\ run.err = NilError
    /\ mocks[run.service].exp = NoExp
    /\ mocks[run.service].srv = [ordered |-> 0, async |-> 1]

\* The service a step names: what is written between the quotes and spaces,
\* the default service if nothing is.
NameOf(r) ==
    IF \E i \in 1..Len(r) : r[i] \notin Cutset
    THEN r[CHOOSE i \in 1..Len(r) : r[i] \notin Cutset]
    ELSE Default

\* A step is called that names a service that was never registered.
UnknownCalled ==
    /\ run.pc = "idle"
    /\ run'.pc # "idle"
    /\ NameOf(run'.raw) \notin DOMAIN mocks

\* A step is called with an empty service name.
EmptyCalled ==
    /\ run.pc = "idle"
    /\ run'.pc # "idle"
    /\ \A i \in 1..Len(run'.raw) : run'.raw[i] \in Cutset

Other(i) == CHOOSE j \in Insts : j # i

\* Worker w leaves the critical section of acquireLock of instance i for
\* name k.
PairDecides(w, i, k) ==
    /\ ipc[w] = "acq_crit"
    /\ ipc'[w] # "acq_crit"
    /\ icall[w].inst = i
    /\ icall[w].name = k

\* C25: two lock instances registered on the same scenarios keep separate
\* identities and registries: a scenario has a different identity in each
\* instance and a registry records only identities of its own instance;
\* whether a call on name k in one instance returns true, returns false or
\* waits depends on the holder of k in that instance alone, whatever the
\* other instance records for k; and the After hook of an instance deletes
\* entries of its own registry only and calls its callback only for names of
\* its own registry.
C25_IndependentInstances ==
    [][/\ \A w \in MockWorkers :
            (ictx[w]["local"] # NoChan /\ ictx[w]["external"] # NoChan)
                => ictx[w]["local"] # ictx[w]["external"]
       /\ \A i \in Insts, k \in Names :
            ilocks[i][k] # NoChan =>
                \E w \in MockWorkers : ictx[w][i] = ilocks[i][k]
       /\ \A w \in MockWorkers, i \in Insts, k \in Names :
            PairDecides(w, i, k) =>
              /\ (ilocks[i][k] = NoChan) <=>
                    (ipc'[w] = "steps" /\ iret'[w] = "true")
              /\ (ilocks[i][k] = ictx[w][i]) <=>
                    (ipc'[w] = "steps" /\ iret'[w] = "false")
              /\ (ilocks[i][k] \notin {NoChan, ictx[w][i]}) <=>
                    (ipc'[w] = "acq_wait")
              /\ ilocks'[Other(i)] = ilocks[Other(i)]
              /\ ilocks'[i][k] # NoChan
       /\ \A w \in MockWorkers :
            (ipc[w] = "after_loop" /\ itodo'[w] # itodo[w]) =>
              /\ ilocks'[Other(icall[w].inst)] = ilocks[Other(icall[w].inst)]
              /\ \A c \in ilog'[w] \ ilog[w] :
                    /\ c[1] = icall[w].inst
                    /\ ilocks[c[1]][c[2]] # NoChan
      ]_vars

\* Two scenarios hold the same name at the same time, one in each instance,
\* both by a fresh acquisition, and the first has the name in the other
\* instance too.
C25_Witness ==
    \E k \in Names :
        /\ ipc[1] = "steps" /\ ipc[2] = "steps"
        /\ ilocks["local"][k] = ictx[1]["local"]
        /\ ilocks["external"][k] = ictx[2]["external"]
        /\ iret[1] = "true" /\ iret[2] = "true"
        /\ \E k2 \in Names : k2 # k /\ ilocks["external"][k2] = ictx[1]["external"]

\* Worker b blocked on name k before worker c did, and b is still blocked.
BlockedBefore(b, c, k) ==
    /\ b # c
    /\ pc[b] = "acq_wait"
    /\ \E i, j \in 1..Len(waiters) :
         i < j /\ waiters[i] = <<b, k>> /\ waiters[j] = <<c, k>>

\* C26: the lock orders the contenders of a name in no way: every blocked
\* call whose channel has been closed can go on as soon as the mutex is free,
\* whichever call blocked first, and the call that finds the name free in its
\* critical section becomes the holder although a call that blocked earlier
\* on the same name is still blocked.
C26_NoFifo ==
    [][/\ \A w \in Workers :
            (pc[w] = "acq_wait" /\ lock[w] \in closed /\ mu = Free)
                => ENABLED AcquireWake(w)
       /\ \A b, c \in Workers :
            (/\ pc[c] = "acq_crit"
             /\ pc'[c] # "acq_crit"
             /\ BlockedBefore(b, c, lockName[c])
             /\ locks[lockName[c]] = NoChan)
                => /\ locks'[lockName[c]] = ctx[c]
                   /\ pc'[c] = "steps"
                   /\ ret'[c] = "true"
                   /\ pc'[b] = "acq_wait"
      ]_vars

\* C26 witness: c started to wait for the name after b, c has become its
\* holder, and b is still blocked.
C26_Witness ==
    \E b, c \in Workers, k \in Names :
        /\ BlockedBefore(b, c, k)
        /\ pc[c] = "steps"
        /\ ret[c] = "true"
        /\ locks[k] = ctx[c]

\* afterScenario has returned.
AfterScenarioEnds == lpc = "idle" /\ lret # <<"none">>

\* What afterScenario has to say about the registered name k.
LocalFailure(k) ==
    IF ~Service(services, k).found
    THEN <<ServiceMessage(k, Service(services, k).err)>>
    ELSE IF Service(services, k).service \in lother
    THEN <<OtherMessage(k, errOtherResponses)>>
    ELSE <<>>

\* The error is the scenario error, if any, and the messages of the names that
\* fail, each once, joined by line feeds.
LocalJoined ==
    /\ lret = Join(lerrs, "\n")
    /\ lerr # "nil" => lerrs[1] = lerr
    /\ Len(lerrs) = (IF lerr # "nil" THEN 1 ELSE 0)
                      + Cardinality({k \in services : LocalFailure(k) # <<>>})
    /\ \A k \in services :
         LocalFailure(k) # <<>> =>
            \E i \in 1..Len(lerrs) : <<lerrs[i]>> = LocalFailure(k)

\* C27 as stated: afterScenario checks every registered service without
\* stopping at the first failure; it returns nil if and only if the scenario
\* error is nil and no service reports unexpected other responses, otherwise
\* one error that joins the scenario error and a message for each failing
\* service.
C27_EndOfScenario ==
    AfterScenarioEnds =>
        /\ ltodo = {}
        /\ services \subseteq lchecked
        /\ (lret = <<"nil">>) <=> (lerr = "nil" /\ lother = {})
        /\ lret # <<"nil">> => LocalJoined

\* C27 amended: afterScenario looks every registered name up as the steps do
\* (trimmed of quotes and spaces, Default for the empty name) without stopping
\* at the first failure and checks the service it finds; it returns nil if and
\* only if the scenario error is nil, every registered name is found and no
\* service found reports unexpected other responses, otherwise one error that
\* joins the scenario error, a message for each name that is not found and a
\* message for each name whose service reports.
C27_EndOfScenarioResolved ==
    AfterScenarioEnds =>
        /\ ltodo = {}
        /\ lchecked = {Service(services, k).service :
                          k \in {n \in services : Service(services, n).found}}
        /\ (lret = <<"nil">>) <=>
              (lerr = "nil" /\ \A k \in services : LocalFailure(k) = <<>>)
        /\ lret # <<"nil">> => LocalJoined

\* C27 witness: the hook has returned the scenario error joined with the
\* message of a name that is not found and the message of a service with
\* other responses.
C27_Witness ==
    /\ AfterScenarioEnds
    /\ lerr # "nil"
    /\ Len(lerrs) >= 3
    /\ \E k \in services : ~Service(services, k).found
    /\ \E k \in services :
         Service(services, k).found /\ Service(services, k).service \in lother

\* The number of delays among the results: each lets the client try once more.
RECURSIVE Delays(_)
Delays(out) ==
    IF Len(out) = 0 THEN 0
    ELSE (IF out[1] = "delay" THEN 1 ELSE 0) + Delays(Tail(out))

\* C28 as stated: after `I retry HTTP request up to N times` with N > 0 the
\* installed back-off allows at most N attempts: its first N-1 invocations
\* return a delay, its N-th and every later invocation return Stop.
C28_RetryBudget ==
    retry.kind = "tries" =>
        /\ retry.tries > 0
        /\ 1 + Delays(retry.out) <= retry.tries
        /\ \A i \in 1..Len(retry.out) :
             /\ i < retry.tries => retry.out[i] = "delay"
             /\ i >= retry.tries => retry.out[i] = "Stop"

\* C28 amended: after `I retry HTTP request up to N times` with N > 0 the
\* installed back-off allows at most N attempts: its first N-1 invocations
\* return what the exponential back-off returns, a delay or Stop, and its N-th
\* and every later invocation return Stop without asking the exponential
\* back-off, so `up to 1 time` permits no retry.
C28_RetryBudgetDelegated ==
    retry.kind = "tries" =>
        /\ retry.tries > 0
        /\ 1 + Delays(retry.out) <= retry.tries
        /\ retry.maxTries = retry.tries - Len(retry.out)
        /\ retry.eb = (IF Len(retry.out) < retry.tries THEN Len(retry.out)
                                                      ELSE retry.tries - 1)
        /\ \A i \in 1..Len(retry.out) :
             /\ i < retry.tries => retry.out[i] \in {"delay", "Stop"}
             /\ i >= retry.tries => retry.out[i] = "Stop"

\* C28 witness: with N = 3 the back-off has returned two delays and then Stop
\* twice.
C28_Witness ==
    /\ retry.kind = "tries"
    /\ retry.tries = 3
    /\ retry.out = <<"delay", "delay", "Stop", "Stop">>

====
